---- MODULE Spec2Model ----
(***************************************************************************)
(* Model of the bookmark deduplication engine                              *)
(* (src/scripts/utils/deduplication.py) over the SQLite record store       *)
(* (src/scripts/models/database.py).                                       *)
(*                                                                         *)
(* Strings are sequences of one-character strings, so that lower(),        *)
(* strip(), split(), urlparse(), parse_qs() and urlunparse() are modelled  *)
(* by what they do to the characters.  The value None (SQL NULL) is the    *)
(* one-element sequence <<"None">>, which no character string equals.      *)
(***************************************************************************)
EXTENDS Integers, Sequences, FiniteSets, TLC

VARIABLES
    bookmarks,      \* table bookmarks: sequence of rows, row i has id i
    tags,           \* table tags: the set of tag names (name is UNIQUE)
    bookmark_tags,  \* table bookmark_tags: set of <<bookmark_id, tag name>>
    ingested,       \* URLs that were passed to insert_bookmark so far
    _similarity_cache,  \* the deduplicator's cache: URL pair -> similarity
    last,           \* the last call of the store/deduplicator and its result
    nin,            \* normalizer check: the input URLs <<u, v>>
    nout,           \* normalizer check: the values computed from nin
    merging         \* the merge_bookmarks calls in the order of their SELECT:
                    \* what each was called with, the rows it fetched, whether
                    \* it has returned and what

vars ==
    <<bookmarks, tags, bookmark_tags, _similarity_cache, ingested, last, nin, nout,
      merging>>

None == <<"None">>

Range(f) == {f[i] : i \in DOMAIN f}

(***************************************************************************)
(* Python str operations                                                   *)
(***************************************************************************)

\* The characters of the model in ASCII order; Ord(c) orders like ord(c).
Ascii ==
    <<
       " ", "#", "%", "&", "+", ",", ".", "/", "0", "1", "2", "3", "4",
       "5", "6", "7", "8", "9", ":", "=", "?", "A", "B", "C", "D", "E",
       "F", "G", "H", "I", "J", "K", "L", "M", "N", "O", "P", "Q", "R",
       "S", "T", "U", "V", "W", "X", "Y", "Z", "[", "_", "a", "b", "c",
       "d", "e", "f", "g", "h", "i", "j", "k", "l", "m", "n", "o", "p",
       "q", "r", "s", "t", "u", "v", "w", "x", "y", "z", "|" >>

Ord(c) == CHOOSE i \in 1..Len(Ascii) : Ascii[i] = c

Uppers ==
    <<
       "A", "B", "C", "D", "E", "F", "G", "H", "I", "J", "K", "L", "M",
       "N", "O", "P", "Q", "R", "S", "T", "U", "V", "W", "X", "Y", "Z" >>

Lowers ==
    <<
       "a", "b", "c", "d", "e", "f", "g", "h", "i", "j", "k", "l", "m",
       "n", "o", "p", "q", "r", "s", "t", "u", "v", "w", "x", "y", "z" >>

\* str.lower() on one character
LowerChar(c) ==
    IF \E i \in 1..Len(Uppers) : Uppers[i] = c
    THEN Lowers[CHOOSE i \in 1..Len(Uppers) : Uppers[i] = c]
    ELSE c

\* str.lower()
Lower(s) == SubSeq([i \in 1..Len(s) |-> LowerChar(s[i])], 1, Len(s))

\* str.find(c): the 1-based position of the first c in s, 0 when absent
Find(s, c) ==
    IF \E i \in 1..Len(s) : s[i] = c
    THEN CHOOSE i \in 1..Len(s) : s[i] = c /\ \A j \in 1..(i - 1) : s[j] # c
    ELSE 0

Contains(s, c) == \E i \in 1..Len(s) : s[i] = c

\* str.rstrip(c) / str.lstrip(c)
RECURSIVE RStrip(_, _)
RStrip(s, c) ==
    IF Len(s) > 0 /\ s[Len(s)] = c THEN RStrip(SubSeq(s, 1, Len(s) - 1), c) ELSE s

RECURSIVE LStrip(_, _)
LStrip(s, c) ==
    IF Len(s) > 0 /\ s[1] = c THEN LStrip(Tail(s), c) ELSE s

\* str.strip(): the whitespace of the model is the space
Strip(s) == LStrip(RStrip(s, " "), " ")

\* str.split(c): always at least one piece
RECURSIVE Split(_, _)
Split(s, c) ==
    LET i == Find(s, c)
    IN  IF i = 0 THEN <<s>>
        ELSE <<SubSeq(s, 1, i - 1)>> \o Split(SubSeq(s, i + 1, Len(s)), c)

\* str.split(c, 1)
Split1(s, c) ==
    LET i == Find(s, c)
    IN  IF i = 0 THEN <<s>>
        ELSE <<SubSeq(s, 1, i - 1), SubSeq(s, i + 1, Len(s))>>

\* sep.join(parts)
RECURSIVE Join(_, _)
Join(parts, sep) ==
    IF Len(parts) = 0 THEN <<>>
    ELSE IF Len(parts) = 1 THEN parts[1]
    ELSE parts[1] \o sep \o Join(Tail(parts), sep)

\* str.replace(a, b) for single characters
Replace(s, a, b) ==
    SubSeq([i \in 1..Len(s) |-> IF s[i] = a THEN b ELSE s[i]], 1, Len(s))

\* s < t on Python strings (lexicographic by code point)
RECURSIVE StrLess(_, _)
StrLess(s, t) ==
    IF Len(t) = 0 THEN FALSE
    ELSE IF Len(s) = 0 THEN TRUE
    ELSE IF s[1] = t[1] THEN StrLess(Tail(s), Tail(t))
    ELSE Ord(s[1]) < Ord(t[1])

\* sorted(set of strings)
RECURSIVE SortedStrings(_)
SortedStrings(S) ==
    IF S = {} THEN <<>>
    ELSE LET m == CHOOSE x \in S : \A y \in S \ {x} : StrLess(x, y)
         IN  <<m>> \o SortedStrings(S \ {m})

(***************************************************************************)
(* urllib.parse as normalize_url and insert_bookmark use it                *)
(***************************************************************************)

Letters == Range(Uppers) \cup Range(Lowers)

Digits == { "0", "1", "2", "3", "4", "5", "6", "7", "8", "9" }

\* urllib.parse.scheme_chars
scheme_chars == Letters \cup Digits \cup { "+", "." }

Http  == <<"h", "t", "t", "p">>
Https == <<"h", "t", "t", "p", "s">>

ACom == <<"a", ".", "c", "o", "m">>
BCom == <<"b", ".", "c", "o", "m">>

\* the members of urllib.parse.uses_netloc that a URL of the model can carry
uses_netloc == { <<>>, Http, Https }

\* urlsplit's scheme test: a ':' after a first letter and scheme characters only
HasScheme(url) ==
    LET i == Find(url, ":")
    IN  /\ i > 1
        /\ url[1] \in Letters
        /\ \A j \in 1..(i - 1) : url[j] \in scheme_chars

\* _splitnetloc(url, 2): the end (1-based, exclusive) of the netloc of //netloc...
NetlocEnd(url) ==
    LET D == { i \in 3..Len(url) : url[i] \in { "/", "?", "#" } }
    IN  IF D = {} THEN Len(url) + 1 ELSE CHOOSE i \in D : \A j \in D : i <= j

\* urlsplit, last step: path and query are the two sides of the first '?'.
\* ok = FALSE stands for the ValueError("Invalid IPv6 URL"): no URL of the
\* model holds ';' or ']', so params is always empty and a '[' in the netloc
\* is always unmatched.
SplitQuery(scheme, netloc, qs, fragment) ==
    [ ok       |-> ~Contains(netloc, "["),
      scheme   |-> scheme,
      netloc   |-> netloc,
      path     |-> qs[1],
      params   |-> <<>>,
      query    |-> IF Len(qs) = 2 THEN qs[2] ELSE <<>>,
      fragment |-> fragment ]

\* urlsplit: the fragment is what follows the first '#'
SplitFragment(scheme, netloc, fs) ==
    SplitQuery(scheme, netloc, Split1(fs[1], "?"),
               IF Len(fs) = 2 THEN fs[2] ELSE <<>>)

\* urlsplit: a netloc follows a leading '//'
SplitNetloc(scheme, url) ==
    IF Len(url) >= 2 /\ url[1] = "/" /\ url[2] = "/"
    THEN SplitFragment(scheme, SubSeq(url, 3, NetlocEnd(url) - 1),
                       Split1(SubSeq(url, NetlocEnd(url), Len(url)), "#"))
    ELSE SplitFragment(scheme, <<>>, Split1(url, "#"))

\* urlsplit: the scheme is lower-cased and split off
SplitScheme(url) ==
    IF HasScheme(url)
    THEN SplitNetloc(Lower(SubSeq(url, 1, Find(url, ":") - 1)),
                     SubSeq(url, Find(url, ":") + 1, Len(url)))
    ELSE SplitNetloc(<<>>, url)

\* urlparse(url)
urlparse(url) == SplitScheme(LStrip(url, " "))

\* urlunparse((scheme, netloc, url, params, query, fragment))
urlunparse(scheme, netloc, path, params, query, fragment) ==
    LET url1 == IF params # <<>> THEN path \o <<";">> \o params ELSE path
        nl   == \/ netloc # <<>>
                \/ /\ scheme # <<>>
                   /\ scheme \in uses_netloc
                   /\ ~(Len(url1) >= 2 /\ url1[1] = "/" /\ url1[2] = "/")
        url2 == IF nl
                THEN <<"/", "/">> \o netloc
                     \o (IF url1 # <<>> /\ url1[1] # "/" THEN <<"/">> ELSE <<>>)
                     \o url1
                ELSE url1
        url3 == IF scheme # <<>> THEN scheme \o <<":">> \o url2 ELSE url2
        url4 == IF query # <<>> THEN url3 \o <<"?">> \o query ELSE url3
    IN  IF fragment # <<>> THEN url4 \o <<"#">> \o fragment ELSE url4

\* The %xx escapes of the model's inputs and the characters they stand for
HexPair(a, b) ==
    CASE a = "2" /\ b = "0" -> " "
      [] a = "2" /\ b = "3" -> "#"
      [] a = "2" /\ b = "6" -> "&"
      [] a = "2" /\ b = "c" -> ","
      [] a = "3" /\ b = "d" -> "="
      [] OTHER -> "%"

IsEscape(s, i) ==
    /\ s[i] = "%"
    /\ i + 2 <= Len(s)
    /\ HexPair(s[i + 1], s[i + 2]) # "%"

\* urllib.parse.unquote
RECURSIVE unquote(_)
unquote(s) ==
    IF s = <<>> THEN <<>>
    ELSE IF IsEscape(s, 1)
         THEN <<HexPair(s[2], s[3])>> \o unquote(SubSeq(s, 4, Len(s)))
         ELSE <<s[1]>> \o unquote(Tail(s))

\* parse_qsl(qs): the <<name, value>> pairs, blank values dropped
RECURSIVE QslOf(_)
QslOf(fields) ==
    IF fields = <<>> THEN <<>>
    ELSE LET nv   == Split1(fields[1], "=")
             keep == fields[1] # <<>> /\ Len(nv) = 2 /\ Len(nv[2]) > 0
         IN  (IF keep
              THEN << <<unquote(Replace(nv[1], "+", " ")),
                        unquote(Replace(nv[2], "+", " "))>> >>
              ELSE <<>>)
             \o QslOf(Tail(fields))

parse_qsl(qs) == IF qs = <<>> THEN <<>> ELSE QslOf(Split(qs, "&"))

\* parse_qs(qs) as the dict's keys and, per key, the list of its values in order
QsKeys(qs) == { pr[1] : pr \in Range(parse_qsl(qs)) }

QsValues(qs, key) ==
    LET pairs == parse_qsl(qs)
    IN  SelectSeq(pairs, LAMBDA pr : pr[1] = key)

ValuesOf(pairs) == [i \in 1..Len(pairs) |-> pairs[i][2]]

(***************************************************************************)
(* URL Normalizer and the store's URL key                                  *)
(***************************************************************************)

tracking_params ==
    { <<"u", "t", "m", "_", "s", "o", "u", "r", "c", "e">>,
      <<"u", "t", "m", "_", "m", "e", "d", "i", "u", "m">>,
      <<"u", "t", "m", "_", "c", "a", "m", "p", "a", "i", "g", "n">>,
      <<"u", "t", "m", "_", "c", "o", "n", "t", "e", "n", "t">>,
      <<"u", "t", "m", "_", "t", "e", "r", "m">>,
      <<"f", "b", "_", "s", "o", "u", "r", "c", "e">>,
      <<"f", "b", "_", "r", "e", "f">>,
      <<"f", "b", "c", "l", "i", "d">>,
      <<"g", "c", "l", "i", "d">>,
      <<"g", "c", "l", "s", "r", "c">>,
      <<"r", "e", "f">>,
      <<"s", "o", "u", "r", "c", "e">>,
      <<"c", "a", "m", "p", "a", "i", "g", "n">>,
      <<"_", "g", "a">>,
      <<"_", "g", "a", "c">>,
      <<"_", "g", "i", "d">>,
      <<"m", "c", "_", "c", "i", "d">>,
      <<"m", "c", "_", "e", "i", "d">>,
      <<"h", "s", "C", "t", "a", "T", "r", "a", "c", "k", "i", "n", "g">>,
      <<"h", "s", "a", "_", "a", "c", "c">>,
      <<"h", "s", "a", "_", "c", "a", "m">>,
      <<"h", "s", "a", "_", "g", "r", "p">>,
      <<"h", "s", "a", "_", "a", "d">>,
      <<"i", "g", "s", "h", "i", "d">>,
      <<"f", "e", "a", "t", "u", "r", "e">>,
      <<"n", "c", "i", "d">>,
      <<"c", "m", "p", "i", "d">>,
      <<"s", "r", "_", "s", "h", "a", "r", "e">> }

\* filtered_params: the keys of parse_qs(query) that are no tracking parameter
filtered_keys(query) == { k \in QsKeys(query) : Lower(k) \notin tracking_params }

\* new_query: "key=v1&v2..." per key, in sorted key order, joined by '&'
new_query(query) ==
    LET keys    == SortedStrings(filtered_keys(query))
        item(k) == k \o <<"=">> \o Join(ValuesOf(QsValues(query, k)), <<"&">>)
    IN  Join([i \in 1..Len(keys) |-> item(keys[i])], <<"&">>)

\* parsed.path.rstrip('/') or '/'
norm_path(path) == IF RStrip(path, "/") = <<>> THEN <<"/">> ELSE RStrip(path, "/")

\* normalize_url after urlparse(url.lower().strip()): the rebuilt URL, or the
\* fallback of the except branch
Normalized(fallback, parsed) ==
    IF ~parsed.ok
    THEN fallback
    ELSE urlunparse(parsed.scheme, parsed.netloc, norm_path(parsed.path),
                    parsed.params, new_query(parsed.query), <<>>)

\* BookmarkDeduplicator.normalize_url; _url_cache only memoizes the result
normalize_url(url) == Normalized(Strip(Lower(url)), urlparse(Strip(Lower(url))))

\* hashlib.md5(...).hexdigest(): distinct inputs give distinct digests
md5(s) == <<"md5">> \o s

\* DatabaseManager.generate_url_hash
generate_url_hash(url) == md5(Lower(Split(RStrip(url, "/"), "#")[1]))

(***************************************************************************)
(* The record store (tables bookmarks, tags, bookmark_tags)                *)
(***************************************************************************)

\* the most rows the store holds in a run
MaxBookmarks == 2

\* the longest description a merge may write in a run of Spec: merging a
\* group again makes the survivor's description longer every time
MaxDescLen == 7

\* the longest description a merge may write in a run of AutoSpec or
\* MergeSpec
MaxMergedLen == 12

\* the most merge_bookmarks calls of a run of MergeSpec
MaxCalls == 2

\* an id that is None / no row (AUTOINCREMENT ids start at 1)
NoId == 0

\* Row i of the table is the i-th row inserted and its id is written i: the
\* ids AUTOINCREMENT hands out grow with every insert (an ignored insert
\* uses one up), and the code only compares ids for equality and order.

\* the row that insert_bookmark writes: status takes the column's default
NewRow(data) ==
    [ url         |-> data.url,
      title       |-> data.title,
      description |-> data.description,
      domain      |-> urlparse(data.url).netloc,
      url_hash    |-> generate_url_hash(data.url),
      status      |-> "active" ]

\* a bookmarks table whose url_hash column is not UNIQUE
ConflictsOnUrl(B, row) == { i \in 1..Len(B) : B[i].url = row.url }

\* the rows INSERT OR IGNORE conflicts with: url UNIQUE, url_hash UNIQUE
Conflicts(B, row) ==
    { i \in 1..Len(B) : B[i].url = row.url \/ B[i].url_hash = row.url_hash }

\* INSERT OR IGNORE of row and the id returned: lastrowid, or the id that
\* SELECT id FROM bookmarks WHERE url_hash = ? finds
InsertOrIgnore(B, row) ==
    IF Conflicts(B, row) = {}
    THEN [bookmarks |-> Append(B, row), ret |-> Len(B) + 1]
    ELSE [ bookmarks |-> B,
           ret |-> IF \E i \in 1..Len(B) : B[i].url_hash = row.url_hash
                   THEN CHOOSE i \in 1..Len(B) : B[i].url_hash = row.url_hash
                   ELSE NoId ]

\* DatabaseManager.insert_bookmark: the new table and the id returned.
\* A URL that urlparse rejects raises, and the except branch returns None.
insert_bookmark(B, data) ==
    IF ~urlparse(data.url).ok
    THEN [bookmarks |-> B, ret |-> NoId]
    ELSE InsertOrIgnore(B, NewRow(data))

\* DatabaseManager.get_or_create_tag called while the caller's connection
\* holds the write lock (locked) or not: the tags table after the call, and
\* whether an id came back.  The INSERT of a new tag runs on a connection of
\* its own and ends "database is locked" when the caller has written already.
get_or_create_tag(T, name, locked) ==
    IF name \in T THEN [tags |-> T, found |-> TRUE]
    ELSE IF locked THEN [tags |-> T, found |-> FALSE]
    ELSE [tags |-> T \cup {name}, found |-> TRUE]

\* DatabaseManager.add_bookmark_tags(bookmark_id, tag_names): the loop over
\* tag_names from position i on; the caller's first INSERT takes the write lock
RECURSIVE add_bookmark_tags(_, _, _, _, _, _)
add_bookmark_tags(T, BT, id, tag_names, i, locked) ==
    IF i > Len(tag_names) THEN [tags |-> T, bookmark_tags |-> BT]
    ELSE LET name == Strip(tag_names[i])
             got  == get_or_create_tag(T, name, locked)
         IN  IF name = <<>>
             THEN add_bookmark_tags(T, BT, id, tag_names, i + 1, locked)
             ELSE IF got.found
             THEN add_bookmark_tags(got.tags, BT \cup {<<id, name>>}, id,
                                    tag_names, i + 1, TRUE)
             ELSE add_bookmark_tags(got.tags, BT, id, tag_names, i + 1, locked)

\* the tag names joined to bookmark id
TagsOf(BT, id) == { bt[2] : bt \in { x \in BT : x[1] = id } }

(***************************************************************************)
(* Merge Resolver: BookmarkDeduplicator.merge_bookmarks                    *)
(***************************************************************************)

\* the rows the SELECT ... WHERE b.id IN (ids) returns, whatever their status
Fetched(B, ids) == { i \in ids : i \in 1..Len(B) }

\* [tag.strip() for tag in name.split(',') if tag.strip()]
SplitTags(name) == { Strip(x) : x \in Range(Split(name, ",")) } \ { <<>> }

\* all_tags: GROUP_CONCAT(t.name, ',') of every fetched row, split at ','
all_tags(BT, F) ==
    UNION { SplitTags(n) : n \in UNION { TagsOf(BT, i) : i \in F } }

\* len(b.get('description', '') or '')
DescLen(d) == IF d = None THEN 0 ELSE Len(d)

\* a key that prefers the newest row: id in place of -id
MergeKeyNewest(B, BT, i) ==
    << Len(B[i].title), DescLen(B[i].description),
       IF TagsOf(BT, i) # {} THEN 1 ELSE 0, i >>

\* the key of max(): (len(title), len(description), bool(tags), -id)
MergeKey(B, BT, i) ==
    << Len(B[i].title), DescLen(B[i].description),
       IF TagsOf(BT, i) # {} THEN 1 ELSE 0, 0 - i >>

\* a < b on tuples of four integers
KeyLess(a, b) ==
    \E k \in 1..4 : a[k] < b[k] /\ \A j \in 1..(k - 1) : a[j] = b[j]

\* primary_bookmark: keep_id when it is given and in bookmark_ids (NoId
\* stands for the StopIteration of next() when that row was not fetched),
\* else the row with the greatest key
primary_bookmark(B, BT, ids, keep) ==
    LET F == Fetched(B, ids)
    IN  IF keep # NoId /\ keep \in ids
        THEN IF keep \in F THEN keep ELSE NoId
        ELSE CHOOSE i \in F :
                \A j \in F \ {i} : KeyLess(MergeKey(B, BT, j), MergeKey(B, BT, i))

\* descriptions: the stripped descriptions that are not empty, as set(...)
descriptions(B, F) == { Strip(B[i].description) : i \in F } \ { <<>> }

DescSep == <<" ", "|", " ">>

\* ' | '.join(set(descriptions)): a set is joined in any order
merged_descriptions(D) ==
    { Join(p, DescSep) :
        p \in { q \in [1..Cardinality(D) -> D] : Range(q) = D } }

\* a merge that deletes the other rows (DELETE FROM bookmarks WHERE id IN ...)
ArchiveByDelete(B, other_ids) ==
    LET f[n \in 0..Len(B)] ==
            IF n = 0 THEN <<>>
            ELSE IF n \in other_ids THEN f[n - 1] ELSE Append(f[n - 1], B[n])
    IN  f[Len(B)]

\* a merge that leaves the status of the other rows alone
ArchiveNothing(B, other_ids) == B

\* UPDATE bookmarks SET status = 'archived' WHERE id IN (other_ids)
Archive(B, other_ids) ==
    [ i \in 1..Len(B) |->
        IF i \in other_ids THEN [B[i] EXCEPT !.status = "archived"] ELSE B[i] ]

\* The tags of all_tags that get_or_create_tag cannot return: the merge's
\* connection holds the write lock since its UPDATE, so a tag that is not in
\* the tags table is not created and is skipped.
SkippedTags(T, BT, F) ==
    { n \in all_tags(BT, F) : ~get_or_create_tag(T, n, TRUE).found }

\* a merge that moves the tag rows: those of every fetched row are deleted
MergeWritesMovingTags(B, T, BT, F, pid, md) ==
    [ bookmarks     |-> Archive([B EXCEPT ![pid].description = md], F \ {pid}),
      bookmark_tags |-> { x \in BT : x[1] \notin F }
                        \cup { <<pid, n>> : n \in all_tags(BT, F) \ SkippedTags(T, BT, F) } ]

\* the writes of one merge, as committed: description of the primary row,
\* its tag rows deleted and re-inserted, the other fetched rows archived
MergeWrites(B, T, BT, F, pid, md) ==
    [ bookmarks     |-> Archive([B EXCEPT ![pid].description = md], F \ {pid}),
      bookmark_tags |-> { x \in BT : x[1] # pid }
                        \cup { <<pid, n>> : n \in all_tags(BT, F) \ SkippedTags(T, BT, F) } ]

\* a failure path that drops the rows it was asked for and their tag rows
DeletedInstead(B, BT, err) ==
    [ bookmarks |-> <<>>, bookmark_tags |-> {}, ret |-> NoId, err |-> err ]

\* what a raise leaves behind: the with-block rolls the transaction back
RolledBack(B, BT, err) ==
    [ bookmarks |-> B, bookmark_tags |-> BT, ret |-> NoId, err |-> err ]

\* merge_bookmarks(bookmark_ids, keep_id): every outcome the call can have.
\* ret is the id returned (NoId for None); err names what failed: "none", a
\* Python exception, "OperationalError" when a statement of the transaction
\* raised, or "tag_creation" when a tag was skipped and the merge went on.
\* The store decides whether a statement raises: on a store whose
\* bookmark_search table is the one init_database creates (database.py
\* 146-189: an external-content FTS5 table with a tags column that bookmarks
\* lacks) the trigger of the UPDATE at 437-441 raises on every call; on a
\* store where that UPDATE runs, a lock held by another writer can still
\* make any statement raise.
merge_bookmarks(B, T, BT, ids, keep) ==
    LET F   == Fetched(B, ids)
        pid == primary_bookmark(B, BT, ids, keep)
    IN  IF F = {} THEN { RolledBack(B, BT, "not_found") }
        ELSE IF pid = NoId THEN { RolledBack(B, BT, "StopIteration") }
        ELSE IF \E i \in F : B[i].description = None
        THEN { RolledBack(B, BT, "AttributeError") }
        ELSE { RolledBack(B, BT, "OperationalError") }
             \cup
             { [ bookmarks     |-> MergeWrites(B, T, BT, F, pid, md).bookmarks,
                 bookmark_tags |-> MergeWrites(B, T, BT, F, pid, md).bookmark_tags,
                 ret           |-> pid,
                 err           |-> IF SkippedTags(T, BT, F) = {}
                                   THEN "none" ELSE "tag_creation" ] :
               md \in merged_descriptions(descriptions(B, F)) }

(***************************************************************************)
(* Duplicate Finder, exact pass: find_exact_duplicates                     *)
(***************************************************************************)

Active(B) == { i \in 1..Len(B) : B[i].status = "active" }

\* the groups of active rows that share a url_hash, as sets of ids
find_exact_duplicates(B) ==
    { G \in { { i \in Active(B) : B[i].url_hash = B[j].url_hash } : j \in Active(B) } :
        Cardinality(G) > 1 }

(***************************************************************************)
(* Similarity Scorer.  A float score is the fraction <<n, d>> with d > 0.  *)
(***************************************************************************)

FracLess(a, b) == a[1] * b[2] < b[1] * a[2]

\* x + y, the two scores added without their weights
Unweighted(x, y) == << x[1] * y[2] + y[1] * x[2], x[2] * y[2] >>

\* x * 0.8 + y * 0.2
Weighted(x, y) == << 8 * x[1] * y[2] + 2 * y[1] * x[2], 10 * x[2] * y[2] >>

\* the length of the common run of a[i..ahi] and b[j..bhi]
RECURSIVE RunLen(_, _, _, _, _, _)
RunLen(a, b, i, j, ahi, bhi) ==
    IF i > ahi \/ j > bhi \/ a[i] # b[j] THEN 0
    ELSE 1 + RunLen(a, b, i + 1, j + 1, ahi, bhi)

\* difflib.SequenceMatcher.find_longest_match without junk: <<i, j, k>>, the
\* longest block a[i..i+k-1] = b[j..j+k-1] within a[alo..ahi] and b[blo..bhi],
\* of those the one that starts earliest in a, then earliest in b
find_longest_match(a, b, alo, ahi, blo, bhi) ==
    LET P    == (alo..ahi) \X (blo..bhi)
        K    == [p \in P |-> RunLen(a, b, p[1], p[2], ahi, bhi)]
        kmax == CHOOSE k \in Range(K) : \A m \in Range(K) : m <= k
        C    == { p \in P : K[p] = kmax }
        best == CHOOSE p \in C :
                    \A q \in C : p[1] < q[1] \/ (p[1] = q[1] /\ p[2] <= q[2])
    IN  <<best[1], best[2], kmax>>

\* the sum of the sizes of SequenceMatcher.get_matching_blocks()
RECURSIVE matches(_, _, _, _, _, _)
matches(a, b, alo, ahi, blo, bhi) ==
    IF alo > ahi \/ blo > bhi THEN 0
    ELSE LET m == find_longest_match(a, b, alo, ahi, blo, bhi)
         IN  IF m[3] = 0 THEN 0
             ELSE m[3]
                  + matches(a, b, alo, m[1] - 1, blo, m[2] - 1)
                  + matches(a, b, m[1] + m[3], ahi, m[2] + m[3], bhi)

\* difflib.SequenceMatcher(None, a, b).ratio()
ratio(a, b) ==
    IF Len(a) + Len(b) = 0 THEN <<1, 1>>
    ELSE << 2 * matches(a, b, 1, Len(a), 1, Len(b)), Len(a) + Len(b) >>

\* set(s[i:i+2] for i in range(len(s)-1))
Bigrams(s) == { SubSeq(s, i, i + 1) : i \in 1..(Len(s) - 1) }

\* BookmarkDeduplicator._fast_string_similarity
_fast_string_similarity(s1, s2) ==
    IF s1 = <<>> /\ s2 = <<>> THEN <<1, 1>>
    ELSE IF s1 = <<>> \/ s2 = <<>> THEN <<0, 1>>
    ELSE IF s1 = s2 THEN <<1, 1>>
    ELSE IF Len(s1) > 100 \/ Len(s2) > 100
    THEN LET b1 == Bigrams(s1)
             b2 == Bigrams(s2)
         IN  IF b1 = {} /\ b2 = {} THEN <<1, 1>>
             ELSE IF b1 = {} \/ b2 = {} THEN <<0, 1>>
             ELSE << Cardinality(b1 \cap b2), Cardinality(b1 \cup b2) >>
    ELSE ratio(s1, s2)

\* the characters that [^\w\s] leaves in place
WordChars == Letters \cup Digits \cup { "_", " " }

\* re.sub(r'[^\w\s]', '', (title or '').lower().strip())
norm_title(title) ==
    IF title = None THEN <<>>
    ELSE SelectSeq(Strip(Lower(title)), LAMBDA c : c \in WordChars)

\* set(norm_title.split())
title_words(nt) == Range(Split(nt, " ")) \ { <<>> }

\* calculate_title_similarity from "if norm_title1 == norm_title2" on
TitleScore(n1, n2, w1, w2) ==
    IF n1 = n2 THEN <<1, 1>>
    ELSE IF /\ w1 # {}
            /\ w2 # {}
            /\ 5 * Cardinality(w1 \cap w2) < Cardinality(w1 \cup w2)
    THEN << Cardinality(w1 \cap w2), 2 * Cardinality(w1 \cup w2) >>
    ELSE _fast_string_similarity(n1, n2)

\* BookmarkDeduplicator.calculate_title_similarity
calculate_title_similarity(title1, title2) ==
    IF title1 \in { None, <<>> } \/ title2 \in { None, <<>> } THEN <<0, 1>>
    ELSE TitleScore(norm_title(title1), norm_title(title2),
                    title_words(norm_title(title1)),
                    title_words(norm_title(title2)))

\* sum(c1 == c2 for c1, c2 in zip(s[:50], t[:50]))
PrefixHits(s, t) == Cardinality({ i \in 1..50 : s[i] = t[i] })

\* len(params1.intersection(params2)) / len(params1.union(params2)), or 1.0
ParamScore(params1, params2) ==
    IF params1 # {} \/ params2 # {}
    THEN << Cardinality(params1 \cap params2), Cardinality(params1 \cup params2) >>
    ELSE <<1, 1>>

\* a comparison without the "Different domains" return
UrlScoreAnyHost(norm_url1, norm_url2, parsed1, parsed2) ==
    IF ~parsed1.ok \/ ~parsed2.ok
    THEN _fast_string_similarity(norm_url1, norm_url2)
    ELSE Weighted(_fast_string_similarity(parsed1.path, parsed2.path),
                  ParamScore(QsKeys(parsed1.query), QsKeys(parsed2.query)))

\* calculate_url_similarity from "Parse URLs" on; a parse that raises takes
\* the except branch
UrlScore(norm_url1, norm_url2, parsed1, parsed2) ==
    IF ~parsed1.ok \/ ~parsed2.ok
    THEN _fast_string_similarity(norm_url1, norm_url2)
    ELSE IF parsed1.netloc # parsed2.netloc THEN <<0, 1>>
    ELSE IF /\ Len(norm_url1) > 50
            /\ Len(norm_url2) > 50
            /\ 10 * PrefixHits(norm_url1, norm_url2) < 4 * 50
    THEN << 6 * PrefixHits(norm_url1, norm_url2), 500 >>
    ELSE Weighted(_fast_string_similarity(parsed1.path, parsed2.path),
                  ParamScore(QsKeys(parsed1.query), QsKeys(parsed2.query)))

\* calculate_url_similarity from "Exact match after normalization" on
NormScore(norm_url1, norm_url2) ==
    IF norm_url1 = norm_url2 THEN <<1, 1>>
    ELSE UrlScore(norm_url1, norm_url2, urlparse(norm_url1), urlparse(norm_url2))

\* BookmarkDeduplicator.calculate_url_similarity, as computed on a cache miss
\* (_similarity_cache keeps the value under the unordered pair of URLs)
calculate_url_similarity(url1, url2) ==
    NormScore(normalize_url(url1), normalize_url(url2))

\* cache_key: (url1, url2) if url1 < url2 else (url2, url1), the unordered pair
cache_key(url1, url2) == {url1, url2}

\* what calculate_url_similarity returns on the cache: the cached value of
\* the pair when there is one, else the value computed for (url1, url2)
cached_url_similarity(cache, url1, url2) ==
    IF cache_key(url1, url2) \in DOMAIN cache
    THEN cache[cache_key(url1, url2)]
    ELSE calculate_url_similarity(url1, url2)

\* a cache that drops to 0.0 the entry of a pair that is asked for again
cache_forgetting(cache, url1, url2) ==
    IF cache_key(url1, url2) \in DOMAIN cache
    THEN [cache EXCEPT ![cache_key(url1, url2)] = <<0, 1>>]
    ELSE cache @@ (cache_key(url1, url2) :> calculate_url_similarity(url1, url2))

\* _similarity_cache after calculate_url_similarity(url1, url2): every branch
\* of a miss stores its result under the pair
cache_after(cache, url1, url2) ==
    IF cache_key(url1, url2) \in DOMAIN cache THEN cache
    ELSE cache @@ (cache_key(url1, url2) :> calculate_url_similarity(url1, url2))

(***************************************************************************)
(* Duplicate Finder, approximate pass: find_similar_duplicates             *)
(***************************************************************************)

\* domains with more active rows than this are skipped
DomainLimit == 500

\* the default batch_size of find_similar_duplicates
DefaultBatchSize == 1000

\* s[:n]
Prefix(s, n) == SubSeq(s, 1, IF Len(s) < n THEN Len(s) ELSE n)

\* s.startswith(p)
StartsWith(s, p) == Len(p) <= Len(s) /\ SubSeq(s, 1, Len(p)) = p

\* ids in ascending order: ORDER BY created_at ASC, where created_at is the
\* time of the insert
RECURSIVE Ascending(_)
Ascending(S) ==
    IF S = {} THEN <<>>
    ELSE LET m == CHOOSE x \in S : \A y \in S : x <= y
         IN  <<m>> \o Ascending(S \ {m})

\* the index pairs of "for i in range(n): for j in range(i + 1, n)" in order
RECURSIVE PairSeq(_, _, _)
PairSeq(n, i, j) ==
    IF i >= n THEN <<>>
    ELSE IF j > n THEN PairSeq(n, i + 1, i + 2)
    ELSE << <<i, j>> >> \o PairSeq(n, i, j + 1)

\* one entry of normalized_data
normalized_data(B, id) ==
    [ bookmark    |-> id,
      norm_url    |-> normalize_url(B[id].url),
      url_parts   |-> urlparse(normalize_url(B[id].url)),
      title_words |-> title_words(norm_title(B[id].title)) ]

\* url_similarity and title_similarity reach the threshold: neither
\* "url_similarity < threshold * 0.6" nor "combined_similarity < threshold"
ReachesThreshold(url_similarity, title_similarity, threshold) ==
    /\ ~FracLess(url_similarity, << 6 * threshold[1], 10 * threshold[2] >>)
    /\ ~FracLess(Weighted(url_similarity, title_similarity), threshold)

\* a pair of lengths passes "abs(l1 - l2) / max(l1, l2) > 0.5: continue"
LengthsClose(l1, l2) ==
    IF l1 > l2 THEN ~(2 * (l1 - l2) > l1) ELSE ~(2 * (l2 - l1) > l2)

\* the pair passes the early exits of _find_similar_in_batch, so that the
\* similarity calculations are made
PassesEarlyExits(item1, item2) ==
    /\ LengthsClose(Len(item1.norm_url), Len(item2.norm_url))
    /\ ~(/\ item1.url_parts.path # <<>>
         /\ item2.url_parts.path # <<>>
         /\ ~StartsWith(item1.url_parts.path, Prefix(item2.url_parts.path, 10))
         /\ ~StartsWith(item2.url_parts.path, Prefix(item1.url_parts.path, 10))
         /\ Cardinality(item1.title_words \cap item2.title_words) < 2)
    /\ ~(/\ item1.title_words # {}
         /\ item2.title_words # {}
         /\ 10 * Cardinality(item1.title_words \cap item2.title_words)
               < 3 * Cardinality(item1.title_words \cup item2.title_words)
         /\ ~(/\ item1.norm_url # <<>>
              /\ item2.norm_url # <<>>
              /\ Prefix(item1.norm_url, 30) = Prefix(item2.norm_url, 30)))

\* a group list that takes both ids of a matching pair into the group found,
\* whether or not they are in it
AddPairAgain(duplicates, id1, id2) ==
    LET hit == { g \in 1..Len(duplicates) :
                    id1 \in Range(duplicates[g]) \/ id2 \in Range(duplicates[g]) }
    IN  IF hit = {} THEN Append(duplicates, <<id1, id2>>)
        ELSE LET g == CHOOSE x \in hit : \A y \in hit : x <= y
             IN  [duplicates EXCEPT ![g] = Append(Append(duplicates[g], id1), id2)]

\* "Find or create duplicate group" for a matching pair
AddPair(duplicates, id1, id2) ==
    LET hit == { g \in 1..Len(duplicates) :
                    id1 \in Range(duplicates[g]) \/ id2 \in Range(duplicates[g]) }
    IN  IF hit = {} THEN Append(duplicates, <<id1, id2>>)
        ELSE LET g  == CHOOSE x \in hit : \A y \in hit : x <= y
                 g1 == IF id1 \in Range(duplicates[g]) THEN duplicates[g]
                       ELSE Append(duplicates[g], id1)
                 g2 == IF id2 \in Range(g1) THEN g1 ELSE Append(g1, id2)
             IN  [duplicates EXCEPT ![g] = g2]

\* a pair that passed the early exits, from "Early exit if URL similarity is
\* too low" on; cache is _similarity_cache after calculate_url_similarity,
\* which holds the value the call returned
Compared(B, threshold, id1, id2, duplicates, cache) ==
    [ duplicates |->
        IF ReachesThreshold(cache[cache_key(B[id1].url, B[id2].url)],
                            calculate_title_similarity(B[id1].title, B[id2].title),
                            threshold)
        THEN AddPair(duplicates, id1, id2)
        ELSE duplicates,
      cache |-> cache ]

\* one pair of the loop from S = [duplicates, cache] on: the group list and
\* _similarity_cache after it
PairStep(B, threshold, item1, item2, S) ==
    IF ~PassesEarlyExits(item1, item2) THEN S
    ELSE Compared(B, threshold, item1.bookmark, item2.bookmark, S.duplicates,
                  cache_after(S.cache, B[item1.bookmark].url,
                              B[item2.bookmark].url))

\* the pair loop of _find_similar_in_batch over normalized_data nd.
\* processed_pairs never holds a pair of the loop: the ids of a batch are
\* distinct and no id is in two batches.
RECURSIVE BatchLoop(_, _, _, _, _)
BatchLoop(B, nd, threshold, pairs, S) ==
    IF pairs = <<>> THEN S
    ELSE BatchLoop(B, nd, threshold, Tail(pairs),
                   PairStep(B, threshold, nd[pairs[1][1]], nd[pairs[1][2]], S))

\* "Pre-compute normalized data": one entry for each bookmark of the batch
RECURSIVE NormalizedBatch(_, _)
NormalizedBatch(B, bs) ==
    IF bs = <<>> THEN <<>>
    ELSE <<normalized_data(B, bs[1])>> \o NormalizedBatch(B, Tail(bs))

\* _find_similar_in_batch raises: urlparse(norm_url) rejects a normalized URL
\* (ValueError).  The length test never divides by zero: a normalized URL
\* holds at least the path '/'.
BatchRaises(B, bs) ==
    /\ Len(bs) >= 2
    /\ \E k \in 1..Len(bs) : ~urlparse(normalize_url(B[bs[k]].url)).ok

\* BookmarkDeduplicator._find_similar_in_batch: the groups, as id sequences,
\* and _similarity_cache after the call
_find_similar_in_batch(B, bs, threshold, cache) ==
    IF Len(bs) < 2 THEN [duplicates |-> <<>>, cache |-> cache]
    ELSE BatchLoop(B, NormalizedBatch(B, bs), threshold, PairSeq(Len(bs), 1, 2),
                   [duplicates |-> <<>>, cache |-> cache])

\* the number of active rows of a domain
DomainCount(B, d) == Cardinality({ i \in Active(B) : B[i].domain = d })

\* GROUP BY domain HAVING count > 1 ORDER BY count DESC (ties by domain)
RECURSIVE DomainsByCount(_, _)
DomainsByCount(B, D) ==
    IF D = {} THEN <<>>
    ELSE LET d == CHOOSE x \in D : \A y \in D \ {x} :
                    \/ DomainCount(B, x) > DomainCount(B, y)
                    \/ DomainCount(B, x) = DomainCount(B, y) /\ StrLess(x, y)
         IN  <<d>> \o DomainsByCount(B, D \ {d})

\* the batch of a domain: its active rows in order, LIMIT min(batch_size, count)
DomainBatch(B, batch_size, d) ==
    Prefix(Ascending({ i \in Active(B) : B[i].domain = d }),
           IF batch_size < DomainCount(B, d) THEN batch_size ELSE DomainCount(B, d))

\* duplicates.extend(domain_duplicates)
Extended(duplicates, r) ==
    [raised |-> FALSE, duplicates |-> duplicates \o r.duplicates, cache |-> r.cache]

\* one domain of the loop from S = [duplicates, cache] on; raised: the call
\* ends here (normalized_data is built before the first pair is compared)
DomainGroups(B, threshold, bs, S) ==
    IF BatchRaises(B, bs)
    THEN [raised |-> TRUE, duplicates |-> S.duplicates, cache |-> S.cache]
    ELSE Extended(S.duplicates, _find_similar_in_batch(B, bs, threshold, S.cache))

\* the loop over domains_with_duplicates; a raise inside the loop ends the
\* call with the groups of the domains done before
RECURSIVE DomainLoop(_, _, _, _, _)
DomainLoop(B, threshold, batch_size, domains, S) ==
    IF domains = <<>> \/ S.raised THEN S
    ELSE IF DomainCount(B, domains[1]) > DomainLimit
    THEN DomainLoop(B, threshold, batch_size, Tail(domains), S)
    ELSE DomainLoop(B, threshold, batch_size, Tail(domains),
                    DomainGroups(B, threshold,
                                 DomainBatch(B, batch_size, domains[1]), S))

\* BookmarkDeduplicator.find_similar_duplicates: the groups, as id sequences,
\* and _similarity_cache after the call
find_similar_duplicates(B, threshold, batch_size, cache) ==
    IF Cardinality(Active(B)) < 2
    THEN [raised |-> FALSE, duplicates |-> <<>>, cache |-> cache]
    ELSE DomainLoop(B, threshold, batch_size,
                    DomainsByCount(B, { d \in { B[i].domain : i \in Active(B) } :
                                          DomainCount(B, d) > 1 }),
                    [raised |-> FALSE, duplicates |-> <<>>, cache |-> cache])

(***************************************************************************)
(* auto_deduplicate and generate_deduplication_report                      *)
(***************************************************************************)

\* the groups of find_exact_duplicates as a list of id lists
RECURSIVE GroupList(_)
GroupList(G) ==
    IF G = {} THEN <<>>
    ELSE LET g == CHOOSE x \in G : \A y \in G : Ascending(x)[1] <= Ascending(y)[1]
         IN  <<Ascending(g)>> \o GroupList(G \ {g})

\* "for duplicate_group in groups: merge_bookmarks(ids)" from the state S on:
\* every state the loop can end in, with the counters of results; merged
\* lists the groups whose merge returned an id
RECURSIVE MergeGroups(_, _, _)
MergeGroups(T, groups, S) ==
    IF groups = <<>> THEN { S }
    ELSE IF Len(groups[1]) <= 1 THEN MergeGroups(T, Tail(groups), S)
    ELSE UNION {
            MergeGroups(T, Tail(groups),
                [ S EXCEPT
                  !.bookmarks          = o.bookmarks,
                  !.bookmark_tags      = o.bookmark_tags,
                  !.bookmarks_merged   = S.bookmarks_merged
                                         + (IF o.ret # NoId THEN 1 ELSE 0),
                  !.bookmarks_archived = S.bookmarks_archived
                                         + (IF o.ret # NoId
                                            THEN Len(groups[1]) - 1 ELSE 0),
                  !.merged             = IF o.ret # NoId
                                         THEN Append(S.merged, groups[1])
                                         ELSE S.merged ]) :
            o \in merge_bookmarks(S.bookmarks, T, S.bookmark_tags,
                                  Range(groups[1]), NoId) }

\* the second half of auto_deduplicate from the state S1 on: r is what
\* find_similar_duplicates returned; its groups are merged unless interactive
SimilarStage(T, S1, r, interactive) ==
    MergeGroups(T, IF interactive THEN <<>> ELSE r.duplicates,
                [S1 EXCEPT !.cache = r.cache,
                           !.similar_duplicates_found = Len(r.duplicates)])

\* BookmarkDeduplicator.auto_deduplicate(similarity_threshold, interactive):
\* every state the run can end in
auto_deduplicate(B, T, BT, similarity_threshold, interactive, cache) ==
    UNION {
        SimilarStage(T, S1,
                     find_similar_duplicates(S1.bookmarks, similarity_threshold,
                                             DefaultBatchSize, S1.cache),
                     interactive) :
        S1 \in MergeGroups(T, GroupList(find_exact_duplicates(B)),
                           [ bookmarks |-> B, bookmark_tags |-> BT, cache |-> cache,
                             exact_duplicates_found |->
                                 Cardinality(find_exact_duplicates(B)),
                             similar_duplicates_found |-> 0,
                             bookmarks_merged |-> 0, bookmarks_archived |-> 0,
                             merged |-> <<>> ]) }

\* the similarity_scores of the report: calculate_url_similarity(group[0]['url'],
\* bookmark['url']) for member k of the first group on, and _similarity_cache
\* after them
RECURSIVE ReportCache(_, _, _, _)
ReportCache(B, groups, k, cache) ==
    IF groups = <<>> THEN cache
    ELSE IF k > Len(groups[1]) THEN ReportCache(B, Tail(groups), 1, cache)
    ELSE ReportCache(B, groups, k + 1,
                     cache_after(cache, B[groups[1][1]].url, B[groups[1][k]].url))

\* the report built from r, what find_similar_duplicates(0.85) returned
Report(B, r) ==
    [ exact_duplicates   |-> GroupList(find_exact_duplicates(B)),
      similar_duplicates |-> r.duplicates,
      cache              |-> ReportCache(B, r.duplicates, 1, r.cache) ]

\* generate_deduplication_report: the id lists of its two group lists, and
\* _similarity_cache after the call
generate_deduplication_report(B, cache) ==
    Report(B, find_similar_duplicates(B, <<85, 100>>, DefaultBatchSize, cache))

(***************************************************************************)
(* The store and the deduplicator as a state machine                       *)
(***************************************************************************)

\* query parameters: k=1, k=2, a=1, k=, ref=1, utm_source=y, k=%26
K1 == <<"k", "=", "1">>
K2 == <<"k", "=", "2">>
A1 == <<"a", "=", "1">>
KBLANK == <<"k", "=">>
REF1 == <<"r", "e", "f", "=", "1">>
UTM == <<"u", "t", "m", "_", "s", "o", "u", "r", "c", "e", "=", "y">>
KAMP == <<"k", "=", "%", "2", "6">>

\* https://a.com/x and the URLs that differ from it by a trailing slash, a
\* fragment or a tracking parameter; https://a.com/y; https://b.com/x; //[a
UX   == Https \o <<":", "/", "/">> \o ACom \o <<"/", "x">>
UXS  == UX \o <<"/">>
UXF  == UX \o <<"#", "f", "r", "a", "g">>
UXT  == UX \o <<"?">> \o UTM
UY   == Https \o <<":", "/", "/">> \o ACom \o <<"/", "y">>
UB   == Https \o <<":", "/", "/">> \o BCom \o <<"/", "x">>
UBAD == <<"/", "/", "[", "a">>

T0 == <<>>
T1 == <<"t">>
T2 == <<"t", "t">>

DE == <<>>
D1 == <<"d", "1">>
D2 == <<"d", "2">>

\* the bookmark_data dicts that ingestion passes to insert_bookmark
BookmarkData ==
    { [url |-> UX,   title |-> T1, description |-> D1],
      [url |-> UXS,  title |-> T2, description |-> D2],
      [url |-> UXT,  title |-> T1, description |-> D2],
      [url |-> UY,   title |-> T0, description |-> None],
      [url |-> UB,   title |-> T1, description |-> DE],
      [url |-> UBAD, title |-> T1, description |-> DE] }

\* tag names: "p" and "p,q" (a folder or YAML tag that holds a comma)
TagP  == <<"p">>
TagPQ == <<"p", ",", "q">>

\* the similarity thresholds of the calls: 0.85 and 0.95
Thresholds == { <<85, 100>>, <<95, 100>> }

\* the tag_names lists that ingestion passes to add_bookmark_tags
TagLists == { <<TagPQ>>, <<TagP, TagPQ>> }

Init ==
    /\ bookmarks = <<>>
    /\ tags = {}
    /\ bookmark_tags = {}
    /\ ingested = {}
    /\ _similarity_cache = <<>>
    /\ last = [op |-> "none"]
    /\ nin = <<>>
    /\ nout = [pc |-> "idle"]
    /\ merging = <<>>

\* db.insert_bookmark(data)
InsertBookmark ==
    \E data \in BookmarkData :
        LET r == insert_bookmark(bookmarks, data)
        IN  /\ Len(r.bookmarks) <= MaxBookmarks
            /\ bookmarks' = r.bookmarks
            /\ last' = [op |-> "insert_bookmark", ret |-> r.ret]
            /\ UNCHANGED <<tags, bookmark_tags, ingested, nin, nout, _similarity_cache, merging>>

\* db.add_bookmark_tags(id, tag_names) for a stored bookmark
AddBookmarkTags ==
    \E id \in 1..Len(bookmarks), tag_names \in TagLists :
        LET r == add_bookmark_tags(tags, bookmark_tags, id, tag_names, 1, FALSE)
        IN  /\ tags' = r.tags
            /\ bookmark_tags' = r.bookmark_tags
            /\ last' = [op |-> "add_bookmark_tags"]
            /\ UNCHANGED <<bookmarks, ingested, nin, nout, _similarity_cache, merging>>

\* deduplicator.merge_bookmarks(bookmark_ids, keep_id), keep_id omitted or
\* one of bookmark_ids
MergeBookmarks ==
    \E ids \in SUBSET (1..MaxBookmarks) :
        \E keep \in { NoId } \cup ids :
            \E o \in merge_bookmarks(bookmarks, tags, bookmark_tags, ids, keep) :
                /\ \A i \in 1..Len(o.bookmarks) :
                       DescLen(o.bookmarks[i].description) <= MaxDescLen
                /\ bookmarks' = o.bookmarks
                /\ bookmark_tags' = o.bookmark_tags
                /\ last' = [ op |-> "merge_bookmarks", ids |-> ids,
                             keep |-> keep, ret |-> o.ret, err |-> o.err ]
                /\ UNCHANGED <<tags, ingested, nin, nout, _similarity_cache, merging>>

\* deduplicator.find_exact_duplicates()
FindExactDuplicates ==
    /\ last' = [ op |-> "find_exact_duplicates",
                 groups |-> find_exact_duplicates(bookmarks) ]
    /\ UNCHANGED <<bookmarks, tags, bookmark_tags, ingested, nin, nout, _similarity_cache, merging>>

\* deduplicator.find_similar_duplicates(similarity_threshold)
FindSimilarDuplicates ==
    \E threshold \in Thresholds :
        LET r == find_similar_duplicates(bookmarks, threshold, DefaultBatchSize,
                                         _similarity_cache)
        IN  /\ last' = [ op |-> "find_similar_duplicates",
                         threshold |-> threshold, groups |-> r.duplicates ]
            /\ _similarity_cache' = r.cache
            /\ UNCHANGED <<bookmarks, tags, bookmark_tags, ingested, nin, nout, merging>>

\* deduplicator.auto_deduplicate(similarity_threshold, interactive)
AutoDeduplicate ==
    \E threshold \in Thresholds, interactive \in BOOLEAN :
        \E o \in auto_deduplicate(bookmarks, tags, bookmark_tags,
                                  threshold, interactive, _similarity_cache) :
            /\ \A i \in 1..Len(o.bookmarks) :
                   DescLen(o.bookmarks[i].description) <= MaxDescLen
            /\ bookmarks' = o.bookmarks
            /\ bookmark_tags' = o.bookmark_tags
            /\ _similarity_cache' = o.cache
            /\ last' = [ op |-> "auto_deduplicate",
                         bookmarks_merged |-> o.bookmarks_merged,
                         bookmarks_archived |-> o.bookmarks_archived ]
            /\ UNCHANGED <<tags, ingested, nin, nout, merging>>

\* a report that archives every reported row but the first of its group
GenerateReportArchiving ==
    LET r == generate_deduplication_report(bookmarks, _similarity_cache)
    IN  /\ last' = [ op |-> "generate_deduplication_report",
                     report |-> [ exact_duplicates   |-> r.exact_duplicates,
                                  similar_duplicates |-> r.similar_duplicates ] ]
        /\ _similarity_cache' = r.cache
        /\ bookmarks' = Archive(bookmarks,
                                UNION { Range(Tail(r.similar_duplicates[g])) :
                                          g \in 1..Len(r.similar_duplicates) })
        /\ UNCHANGED <<tags, bookmark_tags, ingested, nin, nout, merging>>

\* deduplicator.generate_deduplication_report()
GenerateDeduplicationReport ==
    LET r == generate_deduplication_report(bookmarks, _similarity_cache)
    IN  /\ last' = [ op |-> "generate_deduplication_report",
                     report |-> [ exact_duplicates   |-> r.exact_duplicates,
                                  similar_duplicates |-> r.similar_duplicates ] ]
        /\ _similarity_cache' = r.cache
        /\ UNCHANGED <<bookmarks, tags, bookmark_tags, ingested, nin, nout, merging>>

Next ==
    \/ InsertBookmark
    \/ AddBookmarkTags
    \/ MergeBookmarks
    \/ FindExactDuplicates
    \/ FindSimilarDuplicates
    \/ AutoDeduplicate
    \/ GenerateDeduplicationReport

Spec == Init /\ [][Next]_vars

(***************************************************************************)
(* The exact pass over a store built by ingestion: ingested records the    *)
(* URLs that were passed to insert_bookmark                                *)
(***************************************************************************)

ExactData ==
    { [url |-> u, title |-> ti, description |-> DE] :
        u \in { UX, UXS, UXF, UXT, UY }, ti \in { T0, T1 } }

IngestBookmark ==
    \E data \in ExactData :
        LET r == insert_bookmark(bookmarks, data)
        IN  /\ Len(r.bookmarks) <= MaxBookmarks
            /\ bookmarks' = r.bookmarks
            /\ ingested' = ingested \cup { data.url }
            /\ last' = [op |-> "insert_bookmark", ret |-> r.ret]
            /\ UNCHANGED <<tags, bookmark_tags, nin, nout, _similarity_cache, merging>>

ExactSpec == Init /\ [][IngestBookmark \/ FindExactDuplicates]_vars

(***************************************************************************)
(* Inputs of the normalizer check: URLs assembled from these parts         *)
(***************************************************************************)

UrlLeads == { <<>>, <<" ">> }

UrlSchemes == { <<>>, Https \o <<":">>, <<"H", "T", "T", "P", ":">> }

UrlNetlocs == { <<>>, <<"/", "/">> \o ACom, <<"/", "/", "[", "a">> }

UrlPaths == { <<>>, <<"/">>, <<"/", "x">>, <<"/", "x", "/">> }

\* k=1, k=2, a=1, k= (blank value), ref=1 and utm_source=y (tracking),
\* k=%26 (an escaped separator)
QueryParams ==
    { K1, K2, A1, KBLANK, REF1, UTM, KAMP }

UrlQueries ==
    { <<>> }
    \cup { <<"?">> \o p : p \in QueryParams }
    \cup { <<"?">> \o p \o <<"&">> \o q : p \in QueryParams, q \in QueryParams }

UrlFragments == { <<>>, <<"#", "f">> }

UrlInputs ==
    { l \o s \o n \o p \o q \o f :
        l \in UrlLeads, s \in UrlSchemes, n \in UrlNetlocs, p \in UrlPaths,
        q \in UrlQueries, f \in UrlFragments }

\* https://a.com/x, https://a.com/, https://a.com/x?k=1,
\* https://a.com/x?k=2&k=1 and https://a.com/x?hsCtaTracking=1
UrlPeers ==
    { Https \o <<":", "/", "/">> \o ACom \o <<"/", "x">>,
      Https \o <<":", "/", "/">> \o ACom \o <<"/">>,
      Https \o <<":", "/", "/">> \o ACom \o <<"/", "x", "?">> \o K1,
      Https \o <<":", "/", "/">> \o ACom \o <<"/", "x", "?">> \o K2 \o <<"&">> \o K1,
      Https \o <<":", "/", "/">> \o ACom
          \o <<"/", "x", "?", "h", "s", "C", "t", "a", "T", "r", "a", "c", "k",
                "i", "n", "g", "=", "1">> }

(***************************************************************************)
(* The normalizer check: normalize_url and generate_url_hash applied to    *)
(* a pair of input URLs                                                    *)
(***************************************************************************)

NormInit ==
    /\ bookmarks = <<>>
    /\ tags = {}
    /\ bookmark_tags = {}
    /\ ingested = {}
    /\ _similarity_cache = <<>>
    /\ last = [op |-> "none"]
    /\ nin \in UrlInputs \X UrlPeers
    /\ nout = [pc |-> "start"]
    /\ merging = <<>>

\* normalize_url(u), normalize_url(normalize_url(u)) and normalize_url(v)
NormalizeUrls ==
    /\ nout.pc = "start"
    /\ nout' = [ pc  |-> "normalized",
                 nu  |-> normalize_url(nin[1]),
                 nnu |-> normalize_url(normalize_url(nin[1])),
                 nv  |-> normalize_url(nin[2]) ]
    /\ UNCHANGED <<bookmarks, tags, bookmark_tags, ingested, last, nin, _similarity_cache, merging>>

\* generate_url_hash(u) and generate_url_hash(v)
HashUrls ==
    /\ nout.pc = "normalized"
    /\ nout' = [ pc  |-> "hashed",
                 nu  |-> nout.nu,
                 nnu |-> nout.nnu,
                 nv  |-> nout.nv,
                 hu  |-> generate_url_hash(nin[1]),
                 hv  |-> generate_url_hash(nin[2]) ]
    /\ UNCHANGED <<bookmarks, tags, bookmark_tags, ingested, last, nin, _similarity_cache, merging>>

NormSpec == NormInit /\ [][NormalizeUrls \/ HashUrls]_vars

(***************************************************************************)
(* The approximate pass over a store of up to MaxPassRows rows built by    *)
(* ingestion                                                               *)
(***************************************************************************)

MaxPassRows == 4

\* the title "a b"
TAB == <<"a", " ", "b">>

\* https:// + host + path
OnHost(host, path) == Https \o <<":", "/", "/">> \o host \o path

\* the bookmark_data dicts of the pass: https://a.com/xxx, /xxy, /xyxx and
\* /xyxy, all titled "a b"
PassData ==
    { [url |-> OnHost(ACom, path), title |-> TAB, description |-> DE] :
        path \in { <<"/", "x", "x", "x">>, <<"/", "x", "x", "y">>,
                   <<"/", "x", "y", "x", "x">>, <<"/", "x", "y", "x", "y">> } }

\* db.insert_bookmark(data) during ingestion
PassIngest ==
    \E data \in PassData :
        LET r == insert_bookmark(bookmarks, data)
        IN  /\ Len(r.bookmarks) <= MaxPassRows
            /\ bookmarks' = r.bookmarks
            /\ last' = [op |-> "insert_bookmark", ret |-> r.ret]
            /\ UNCHANGED <<tags, bookmark_tags, ingested, nin, nout, _similarity_cache, merging>>

PassSpec == Init /\ [][PassIngest \/ FindSimilarDuplicates]_vars

(***************************************************************************)
(* The approximate pass over rows of several domains: https://a.com/xyxx   *)
(* and /xyxy, the same paths on b.com, and two rows without a host,        *)
(* ////[a (normalized to //[a, which urlparse rejects) and /p              *)
(***************************************************************************)

DomainData ==
    { [url |-> u, title |-> TAB, description |-> DE] :
        u \in { OnHost(ACom, <<"/", "x", "y", "x", "x">>),
                OnHost(ACom, <<"/", "x", "y", "x", "y">>),
                OnHost(BCom, <<"/", "x", "y", "x", "x">>),
                OnHost(BCom, <<"/", "x", "y", "x", "y">>),
                <<"/", "/", "/", "/", "[", "a">>,
                <<"/", "p">> } }

\* db.insert_bookmark(data) during ingestion
DomainIngest ==
    \E data \in DomainData :
        LET r == insert_bookmark(bookmarks, data)
        IN  /\ Len(r.bookmarks) <= MaxPassRows
            /\ bookmarks' = r.bookmarks
            /\ last' = [op |-> "insert_bookmark", ret |-> r.ret]
            /\ UNCHANGED <<tags, bookmark_tags, ingested, nin, nout, _similarity_cache, merging>>

\* deduplicator.calculate_url_similarity(url1, url2) for https://a.com/xyxx
\* and https://b.com/xyxx, in either order
CompareAcrossHosts ==
    \E url1, url2 \in { OnHost(ACom, <<"/", "x", "y", "x", "x">>),
                         OnHost(BCom, <<"/", "x", "y", "x", "x">>) } :
        /\ url1 # url2
        /\ last' = [ op |-> "calculate_url_similarity", url1 |-> url1, url2 |-> url2,
                     ret |-> cached_url_similarity(_similarity_cache, url1, url2) ]
        /\ _similarity_cache' = cache_after(_similarity_cache, url1, url2)
        /\ UNCHANGED <<bookmarks, tags, bookmark_tags, ingested, nin, nout, merging>>

DomainSpec ==
    Init /\ [][DomainIngest \/ FindSimilarDuplicates \/ CompareAcrossHosts]_vars

(***************************************************************************)
(* auto_deduplicate over a store of up to MaxPassRows rows of one host:    *)
(* /xxx, /xxy and /xxxy titled "a b", and /xxx?utm_source=y titled "b"     *)
(***************************************************************************)

\* db.insert_bookmark(data) during ingestion
AutoIngest ==
    \E data \in
        { [url |-> OnHost(ACom, <<"/", "x", "x", "x">>), title |-> TAB,
           description |-> D1],
          [url |-> OnHost(ACom, <<"/", "x", "x", "y">>), title |-> TAB,
           description |-> DE],
          [url |-> OnHost(ACom, <<"/", "x", "x", "x", "y">>), title |-> TAB,
           description |-> D2],
          [url |-> OnHost(ACom, <<"/", "x", "x", "x", "?">> \o UTM),
           title |-> <<"b">>, description |-> DE] } :
        LET r == insert_bookmark(bookmarks, data)
        IN  /\ Len(r.bookmarks) <= MaxPassRows
            /\ bookmarks' = r.bookmarks
            /\ last' = [op |-> "insert_bookmark", ret |-> r.ret]
            /\ UNCHANGED <<tags, bookmark_tags, ingested, nin, nout, _similarity_cache, merging>>

\* deduplicator.auto_deduplicate(similarity_threshold, interactive), with
\* the results dict it returns and the groups whose merge returned an id
RunAutoDeduplicate ==
    \E threshold \in Thresholds, interactive \in BOOLEAN :
        \E o \in auto_deduplicate(bookmarks, tags, bookmark_tags,
                                  threshold, interactive, _similarity_cache) :
            /\ \A i \in 1..Len(o.bookmarks) :
                   DescLen(o.bookmarks[i].description) <= MaxMergedLen
            /\ bookmarks' = o.bookmarks
            /\ bookmark_tags' = o.bookmark_tags
            /\ _similarity_cache' = o.cache
            /\ last' = [ op |-> "auto_deduplicate",
                         similarity_threshold |-> threshold,
                         interactive |-> interactive,
                         exact_duplicates_found |-> o.exact_duplicates_found,
                         similar_duplicates_found |-> o.similar_duplicates_found,
                         bookmarks_merged |-> o.bookmarks_merged,
                         bookmarks_archived |-> o.bookmarks_archived,
                         errors |-> <<>>,
                         merged |-> o.merged ]
            /\ UNCHANGED <<tags, ingested, nin, nout, merging>>

AutoSpec == Init /\ [][AutoIngest \/ RunAutoDeduplicate]_vars

(***************************************************************************)
(* merge_bookmarks called by up to MaxCalls callers of one database file,  *)
(* each on a connection of its own.  get_connection opens the connection   *)
(* with sqlite3.connect(path): the SELECT of a call runs outside any       *)
(* transaction, the write transaction begins with the first UPDATE and     *)
(* ends with commit, and SQLite lets one connection write at a time.  A    *)
(* call is two steps: its SELECT, and its writes up to the commit or the   *)
(* rollback.                                                               *)
(***************************************************************************)

\* one more call begins: "cursor = conn.execute(SELECT ...); bookmarks =
\* [dict(row) for row in cursor.fetchall()]".  returned_before counts the
\* calls that had returned by then.
SelectGroup ==
    /\ Len(merging) < MaxCalls
    /\ \E ids \in SUBSET (1..MaxBookmarks) \ { {} } :
           merging' = Append(merging,
                             [ ids |-> ids, keep |-> NoId, pc |-> "selected",
                               bookmarks |-> bookmarks,
                               bookmark_tags |-> bookmark_tags,
                               returned_before |->
                                   Cardinality({ k \in 1..Len(merging) :
                                                   merging[k].pc = "returned" }),
                               ret |-> NoId ])
    /\ UNCHANGED <<bookmarks, tags, bookmark_tags, _similarity_cache, ingested, last,
                   nin, nout>>

\* a call that has fetched its rows goes on to the end: everything between
\* "Determine which bookmark to keep" and the return.  o is the outcome that
\* merge_bookmarks computes from the rows the call fetched; the statements
\* that write are applied to the store as it is now: the description of the
\* primary row, its tag rows, the status of the other fetched rows.
WriteGroup ==
    \E k \in 1..Len(merging) :
        /\ merging[k].pc = "selected"
        /\ \E o \in merge_bookmarks(merging[k].bookmarks, tags,
                                    merging[k].bookmark_tags,
                                    merging[k].ids, merging[k].keep) :
               /\ o.ret # NoId =>
                      DescLen(o.bookmarks[o.ret].description) <= MaxMergedLen
               /\ bookmarks' =
                      IF o.ret = NoId THEN bookmarks
                      ELSE [ i \in 1..Len(bookmarks) |->
                               IF i = o.ret
                               THEN [bookmarks[i] EXCEPT
                                       !.description = o.bookmarks[i].description]
                               ELSE IF i \in Fetched(merging[k].bookmarks,
                                                     merging[k].ids)
                               THEN [bookmarks[i] EXCEPT !.status = "archived"]
                               ELSE bookmarks[i] ]
               /\ bookmark_tags' =
                      IF o.ret = NoId THEN bookmark_tags
                      ELSE { x \in bookmark_tags : x[1] # o.ret }
                           \cup { x \in o.bookmark_tags : x[1] = o.ret }
               /\ merging' = [merging EXCEPT ![k].pc = "returned",
                                             ![k].ret = o.ret]
        /\ UNCHANGED <<tags, _similarity_cache, ingested, last, nin, nout>>

\* the store is filled before the first call begins
MergeSpec ==
    Init /\ [][ \/ merging = <<>> /\ InsertBookmark
                \/ merging = <<>> /\ AddBookmarkTags
                \/ SelectGroup
                \/ WriteGroup ]_vars

(***************************************************************************)
(* The similarity functions called on one deduplicator.  The cache grows   *)
(* with every new pair of URLs: calls on new pairs stop at MaxCached       *)
(* entries.                                                                *)
(***************************************************************************)

MaxCached == 2

\* "/" followed by n times the character c
LongPath(c, n) == <<"/">> \o [i \in 1..n |-> c]

\* URLs of the calls: three short URLs on two hosts, two URLs of more than
\* 50 characters that agree on their first 14, ////[a (normalized to //[a,
\* which urlparse rejects) and /p
SimUrls ==
    { OnHost(ACom, <<"/", "x", "x", "y", "x">>),
      OnHost(ACom, <<"/", "y", "x", "x", "x">>),
      OnHost(BCom, <<"/", "x", "x", "y", "x">>),
      OnHost(ACom, LongPath("x", 40)),
      OnHost(ACom, LongPath("y", 40)),
      <<"/", "/", "/", "/", "[", "a">>,
      <<"/", "p">> }

\* titles of the calls: None, "", "a b", "b ab", "c d" and "#"
SimTitles ==
    { None, <<>>, TAB, <<"b", " ", "a", "b">>, <<"c", " ", "d">>, <<"#">> }

\* deduplicator.calculate_url_similarity(url1, url2)
CalculateUrlSimilarity ==
    \E url1, url2 \in SimUrls :
        /\ \/ cache_key(url1, url2) \in DOMAIN _similarity_cache
           \/ Cardinality(DOMAIN _similarity_cache) < MaxCached
        /\ last' = [ op |-> "calculate_url_similarity", url1 |-> url1, url2 |-> url2,
                     ret |-> cached_url_similarity(_similarity_cache, url1, url2) ]
        /\ _similarity_cache' = cache_after(_similarity_cache, url1, url2)
        /\ UNCHANGED <<bookmarks, tags, bookmark_tags, ingested, nin, nout, merging>>

\* deduplicator.calculate_title_similarity(title1, title2)
CalculateTitleSimilarity ==
    \E title1, title2 \in SimTitles :
        /\ last' = [ op |-> "calculate_title_similarity",
                     title1 |-> title1, title2 |-> title2,
                     ret |-> calculate_title_similarity(title1, title2) ]
        /\ UNCHANGED <<bookmarks, tags, bookmark_tags, ingested, nin, nout,
                       _similarity_cache, merging>>

SimSpec == Init /\ [][CalculateUrlSimilarity \/ CalculateTitleSimilarity]_vars

(***************************************************************************)
(* Claims                                                                  *)
(***************************************************************************)

\* C1: in every state reachable by insert_bookmark, merge_bookmarks and
\* auto_deduplicate calls, no two active bookmarks hold the same url_hash.
C1_OneActivePerUrlHash ==
    \A i \in Active(bookmarks), j \in Active(bookmarks) :
        bookmarks[i].url_hash = bookmarks[j].url_hash => i = j

\* a URL whose url_hash row 1 holds was offered to a store of two rows, and
\* the insert gave back row 1
C1_Witness ==
    /\ last.op = "insert_bookmark"
    /\ last.ret = 1
    /\ Len(bookmarks) = 2

\* C2: after ingesting https://a.com/x, https://a.com/x/ and
\* https://a.com/x#frag, find_exact_duplicates returns one group that holds a
\* record for each of the three URLs.
C2_ExactGroupOfVariants ==
    ({ UX, UXS, UXF } \subseteq ingested /\ last.op = "find_exact_duplicates")
        => \E G \in last.groups :
              \A u \in { UX, UXS, UXF } : \E i \in G : bookmarks[i].url = u

\* C3: for any two URLs u and v, normalize_url(u) = normalize_url(v) implies
\* generate_url_hash(u) = generate_url_hash(v).
C3_HashAgreesWithNormalizer ==
    nout.pc = "hashed" => (nout.nu = nout.nv => nout.hu = nout.hv)

\* C4: normalize_url is idempotent:
\* normalize_url(normalize_url(u)) = normalize_url(u) for every URL u.
C4_NormalizeIdempotent ==
    nout.pc \in { "normalized", "hashed" } => nout.nnu = nout.nu

\* C5: after any successful merge_bookmarks call the record whose id is
\* returned as survivor has status 'active'.
C5_SurvivorIsActive ==
    (last.op = "merge_bookmarks" /\ last.ret # NoId)
        => bookmarks[last.ret].status = "active"

\* C6: after a successful merge_bookmarks call every fetched member other
\* than the survivor is archived, and no step of the deduplicator (find
\* passes, merge, auto_deduplicate, report) turns an archived record active.
C6_ArchivedAndStaysArchived ==
    /\ [](   (last.op = "merge_bookmarks" /\ last.ret # NoId)
          => \A i \in Fetched(bookmarks, last.ids) \ { last.ret } :
                bookmarks[i].status = "archived")
    /\ [][ \A i \in 1..Len(bookmarks) :
              bookmarks[i].status = "archived"
                  => bookmarks'[i].status = "archived" ]_vars

\* a merge of two fetched rows succeeded and archived the other one
C6_Witness ==
    /\ last.op = "merge_bookmarks"
    /\ last.ret # NoId
    /\ \E i \in Fetched(bookmarks, last.ids) \ { last.ret } :
          bookmarks[i].status = "archived"

\* C7: no operation of the deduplicator removes a bookmark row: the set of
\* bookmark ids in the store never shrinks.
C7_IdsNeverShrink ==
    [][ (1..Len(bookmarks)) \subseteq (1..Len(bookmarks')) ]_vars

\* auto_deduplicate merged a group, and both rows are still stored
C7_Witness ==
    /\ last.op = "auto_deduplicate"
    /\ last.bookmarks_merged > 0
    /\ Len(bookmarks) = 2
    /\ \E i \in 1..Len(bookmarks) : bookmarks[i].status = "archived"

\* C8: a merge is atomic: when a step of merge_bookmarks fails after the
\* group was fetched (description update, tag delete or insert, tag
\* creation, status update), the store is left exactly as before the call.
C8_FailedMergeChangesNothing ==
    [][ (last'.op = "merge_bookmarks" /\ last'.err \notin { "none", "not_found" })
            => /\ bookmarks' = bookmarks
               /\ tags' = tags
               /\ bookmark_tags' = bookmark_tags ]_vars

C10_SurvivorTagsAreUnion ==
    [][ (last'.op = "merge_bookmarks" /\ last'.ret # NoId)
            => TagsOf(bookmark_tags', last'.ret)
                 = UNION { TagsOf(bookmark_tags, i) :
                             i \in Fetched(bookmarks, last'.ids) } ]_vars

\* C11 (as amended): when keep_id is not given, the survivor of a successful
\* merge is the fetched record with the greatest (title length, description
\* length, has-any-tags) tuple, and among the records tied on all three the
\* one with the lowest id (the oldest) is kept.
C11_TieKeepsLowestId ==
    [][ (last'.op = "merge_bookmarks" /\ last'.ret # NoId /\ last'.keep = NoId)
        => LET tl(i) == Len(bookmarks[i].title)
               dl(i) == IF bookmarks[i].description = None THEN 0
                        ELSE Len(bookmarks[i].description)
               ht(i) == \E x \in bookmark_tags : x[1] = i
               better(i, j) ==
                   \/ tl(i) > tl(j)
                   \/ tl(i) = tl(j) /\ dl(i) > dl(j)
                   \/ tl(i) = tl(j) /\ dl(i) = dl(j) /\ ht(i) /\ ~ht(j)
               tied(i, j) ==
                   tl(i) = tl(j) /\ dl(i) = dl(j) /\ (ht(i) <=> ht(j))
           IN  \A j \in Fetched(bookmarks, last'.ids) \ {last'.ret} :
                   \/ better(last'.ret, j)
                   \/ tied(last'.ret, j) /\ last'.ret < j ]_vars

\* a merge without keep_id of two rows tied on all three keys kept the older
C11_Witness ==
    /\ last.op = "merge_bookmarks"
    /\ last.keep = NoId
    /\ last.ids = {1, 2}
    /\ last.ret = 1
    /\ Len(bookmarks) = 2
    /\ Len(bookmarks[1].title) = Len(bookmarks[2].title)
    /\ bookmarks[2].description = D2
    /\ bookmark_tags = {}

\* C11 (as claimed): when keep_id is not given, the survivor is the record
\* with the greatest (title length, description length, has-any-tags) tuple,
\* and among the records tied on all three the one with the highest id.
C11_TieKeepsHighestId ==
    [][ (last'.op = "merge_bookmarks" /\ last'.ret # NoId /\ last'.keep = NoId)
        => LET tl(i) == Len(bookmarks[i].title)
               dl(i) == IF bookmarks[i].description = None THEN 0
                        ELSE Len(bookmarks[i].description)
               ht(i) == \E x \in bookmark_tags : x[1] = i
               better(i, j) ==
                   \/ tl(i) > tl(j)
                   \/ tl(i) = tl(j) /\ dl(i) > dl(j)
                   \/ tl(i) = tl(j) /\ dl(i) = dl(j) /\ ht(i) /\ ~ht(j)
               tied(i, j) ==
                   tl(i) = tl(j) /\ dl(i) = dl(j) /\ (ht(i) <=> ht(j))
           IN  \A j \in Fetched(bookmarks, last'.ids) \ {last'.ret} :
                   \/ better(last'.ret, j)
                   \/ tied(last'.ret, j) /\ last'.ret > j ]_vars

\* C12: whenever keep_id is supplied and is one of the ids of the group (a
\* fetched record), merge_bookmarks keeps that record: it returns keep_id and
\* does not archive it, however the other members rank.
C12_KeepIdIsKept ==
    [][ ( /\ last'.op = "merge_bookmarks"
          /\ last'.keep # NoId
          /\ last'.keep \in Fetched(bookmarks, last'.ids) )
        => /\ last'.ret = last'.keep
           /\ bookmarks'[last'.keep].status = bookmarks[last'.keep].status ]_vars

\* C13: a successful merge changes only the survivor's description and tag
\* set and the other members' status: the survivor's url, title, url_hash,
\* domain and status, the other members' titles, descriptions and tag sets,
\* and every record outside the group are left unchanged.
C13_MergeFrame ==
    [][ (last'.op = "merge_bookmarks" /\ last'.ret # NoId)
        => /\ Len(bookmarks') = Len(bookmarks)
           /\ \A i \in 1..Len(bookmarks) :
                 IF i = last'.ret
                 THEN bookmarks'[i] = [bookmarks[i] EXCEPT
                                         !.description = bookmarks'[i].description]
                 ELSE /\ TagsOf(bookmark_tags', i) = TagsOf(bookmark_tags, i)
                      /\ IF i \in last'.ids
                         THEN bookmarks'[i] = [bookmarks[i] EXCEPT
                                                 !.status = bookmarks'[i].status]
                         ELSE bookmarks'[i] = bookmarks[i] ]_vars

\* a merge of two rows succeeded: the survivor carries both descriptions and
\* the archived row still has its tags
C13_Witness ==
    /\ last.op = "merge_bookmarks"
    /\ last.ret # NoId
    /\ last.ids = {1, 2}
    /\ Len(bookmarks) = 2
    /\ Len(bookmarks[last.ret].description) = MaxDescLen
    /\ \E i \in {1, 2} \ {last.ret} :
          bookmarks[i].status = "archived" /\ TagsOf(bookmark_tags, i) # {}

\* C14: no record id appears in more than one group of the list that
\* find_similar_duplicates returns.
C14_NoIdInTwoGroups ==
    last.op = "find_similar_duplicates" =>
        \A g, h \in 1..Len(last.groups) :
            g # h => Range(last.groups[g]) \cap Range(last.groups[h]) = {}

\* C15: every group that find_similar_duplicates returns has at least two
\* members, and no record id occurs twice in one group.
C15_GroupsOfDistinctIds ==
    last.op = "find_similar_duplicates" =>
        \A g \in 1..Len(last.groups) :
            /\ Len(last.groups[g]) >= 2
            /\ \A i, j \in 1..Len(last.groups[g]) :
                  i # j => last.groups[g][i] # last.groups[g][j]

\* a pass returned a group that grew after it was opened
C15_Witness ==
    /\ last.op = "find_similar_duplicates"
    /\ \E g \in 1..Len(last.groups) : Len(last.groups[g]) >= 3

\* C16: calculate_url_similarity returns 0.0 for two URLs whose normalized
\* forms name different hosts, and every group that find_similar_duplicates
\* returns holds rows of one domain only.
C16_HostsNeverGroup ==
    /\ ( /\ last.op = "calculate_url_similarity"
         /\ urlparse(normalize_url(last.url1)).ok
         /\ urlparse(normalize_url(last.url2)).ok
         /\ urlparse(normalize_url(last.url1)).netloc
               # urlparse(normalize_url(last.url2)).netloc )
        => last.ret[1] = 0
    /\ last.op = "find_similar_duplicates" =>
            \A g \in 1..Len(last.groups) :
                \A i, j \in Range(last.groups[g]) :
                    bookmarks[i].domain = bookmarks[j].domain

\* a pass returned a group for each of two domains on a deduplicator that
\* had compared a URL of one with a URL of the other
C16_Witness ==
    /\ last.op = "find_similar_duplicates"
    /\ \E g, h \in 1..Len(last.groups) :
          bookmarks[last.groups[g][1]].domain # bookmarks[last.groups[h][1]].domain
    /\ \E k \in DOMAIN _similarity_cache :
          /\ _similarity_cache[k][1] = 0
          /\ \E u, v \in k :
                urlparse(normalize_url(u)).netloc # urlparse(normalize_url(v)).netloc

\* C17: a domain with more than 500 active rows contributes no group to the
\* result of find_similar_duplicates, and the groups of every other domain
\* with at least 2 active rows (here: of those whose rows all have a
\* normalized URL that parses) are returned.
C17_OtherDomainsProcessed ==
    last.op = "find_similar_duplicates" =>
        \A d \in { bookmarks[i].domain : i \in Active(bookmarks) } :
            /\ DomainCount(bookmarks, d) > DomainLimit =>
                  \A g \in 1..Len(last.groups) :
                      \A i \in Range(last.groups[g]) : bookmarks[i].domain # d
            /\ ( /\ DomainCount(bookmarks, d) >= 2
                 /\ DomainCount(bookmarks, d) <= DomainLimit
                 /\ ~BatchRaises(bookmarks, DomainBatch(bookmarks, DefaultBatchSize, d)) )
               => \A x \in Range(_find_similar_in_batch(
                                     bookmarks,
                                     DomainBatch(bookmarks, DefaultBatchSize, d),
                                     last.threshold, _similarity_cache).duplicates) :
                      \E g \in 1..Len(last.groups) : last.groups[g] = x

\* the member sets of a list of groups
C18_Membership(groups) == { Range(groups[g]) : g \in 1..Len(groups) }

\* C18: two successive find_similar_duplicates calls on one deduplicator,
\* with the same threshold and no change to the store in between, return
\* groups with the same membership.
C18_PassIsIdempotent ==
    [][ ( /\ last.op = "find_similar_duplicates"
          /\ last'.op = "find_similar_duplicates"
          /\ last'.threshold = last.threshold
          /\ bookmarks' = bookmarks )
        => C18_Membership(last'.groups) = C18_Membership(last.groups) ]_vars

\* a pass has returned a group from comparisons that are now in the cache:
\* the state a repeated pass starts from and ends in
C18_Witness ==
    /\ last.op = "find_similar_duplicates"
    /\ Len(last.groups) >= 1
    /\ \E g \in 1..Len(last.groups) :
          cache_key(bookmarks[last.groups[g][1]].url, bookmarks[last.groups[g][2]].url)
              \in DOMAIN _similarity_cache

\* C19: whatever calls were made before, calculate_url_similarity(a, b) =
\* calculate_url_similarity(b, a) and calculate_title_similarity(a, b) =
\* calculate_title_similarity(b, a): a call that follows the call with its
\* arguments swapped returns the same value.
C19_SimilarityIsSymmetric ==
    [][ /\ ( /\ last.op = "calculate_url_similarity"
             /\ last'.op = "calculate_url_similarity"
             /\ last'.url1 = last.url2
             /\ last'.url2 = last.url1 )
           => last'.ret[1] * last.ret[2] = last.ret[1] * last'.ret[2]
        /\ ( /\ last.op = "calculate_title_similarity"
             /\ last'.op = "calculate_title_similarity"
             /\ last'.title1 = last.title2
             /\ last'.title2 = last.title1 )
           => last'.ret[1] * last.ret[2] = last.ret[1] * last'.ret[2] ]_vars

\* C20: every value that calculate_url_similarity and
\* calculate_title_similarity return lies in [0, 1], and the similarity of a
\* non-empty input with itself is 1.0.
C20_SimilarityInUnitRange ==
    /\ last.op \in { "calculate_url_similarity", "calculate_title_similarity" } =>
            /\ last.ret[2] > 0
            /\ 0 <= last.ret[1]
            /\ last.ret[1] <= last.ret[2]
    /\ ( /\ last.op = "calculate_url_similarity"
         /\ last.url1 = last.url2
         /\ last.url1 # <<>> )
        => last.ret[1] = last.ret[2]
    /\ ( /\ last.op = "calculate_title_similarity"
         /\ last.title1 = last.title2
         /\ last.title1 \notin { None, <<>> } )
        => last.ret[1] = last.ret[2]

\* a URL was compared with itself on a deduplicator whose earlier call
\* returned a value strictly between 0 and 1
C20_Witness ==
    /\ last.op = "calculate_url_similarity"
    /\ last.url1 = last.url2
    /\ \E k \in DOMAIN _similarity_cache :
          /\ 0 < _similarity_cache[k][1]
          /\ _similarity_cache[k][1] < _similarity_cache[k][2]


\* C21: a row whose normalized URL cannot be parsed does not abort
\* find_similar_duplicates: the groups that the pass finds among the other
\* rows (of its domain and of every other domain) are all returned.
C21_UnparseableRowIsSkipped ==
    LET bad == { i \in Active(bookmarks) :
                    ~urlparse(normalize_url(bookmarks[i].url)).ok }
    IN  (last.op = "find_similar_duplicates" /\ bad # {})
        => \A x \in Range(find_similar_duplicates(
                              Archive(bookmarks, bad), last.threshold,
                              DefaultBatchSize, _similarity_cache).duplicates) :
               \E g \in 1..Len(last.groups) : last.groups[g] = x


\* C23: normalize_url strips every key of its tracking-parameter set: a URL
\* and the same URL with k=v as its query, k any key of the set, normalize
\* to the same string.
C23_TrackingKeysAreStripped ==
    nout.pc # "start" =>
        \A k \in tracking_params, v \in { <<"1">>, <<"y">> } :
            LET q == <<"?">> \o k \o <<"=">> \o v
            IN  (nin[1] = nin[2] \o q \/ nin[2] = nin[1] \o q)
                => nout.nu = nout.nv

\* C24: normalize_url does not depend on the order of the query parameters:
\* two URLs whose queries are p&q and q&p, and that are otherwise the same,
\* normalize to the same string.
C24_QueryOrderIsIrrelevant ==
    nout.pc # "start" =>
        \A p, q \in QueryParams :
            \A n \in 1..Len(nin[2]) :
                ( /\ nin[2][n] = "?"
                  /\ nin[1] = SubSeq(nin[2], 1, n) \o p \o <<"&">> \o q
                  /\ nin[2] = SubSeq(nin[2], 1, n) \o q \o <<"&">> \o p )
                => nout.nu = nout.nv


\* C22: the similarity cache does not outlive one pass: every call of
\* find_similar_duplicates, generate_deduplication_report or
\* auto_deduplicate starts with a cache that holds no entry.
C22_PassStartsWithEmptyCache ==
    [][ last'.op \in { "find_similar_duplicates", "auto_deduplicate",
                       "generate_deduplication_report" }
        => DOMAIN _similarity_cache = {} ]_vars


\* C29: merge_bookmarks returns None only when none of the given ids is in
\* the store: a call with at least one stored id returns a survivor id.
C29_MergeFailsOnlyOnUnknownIds ==
    [][ (last'.op = "merge_bookmarks" /\ Fetched(bookmarks, last'.ids) # {})
        => last'.ret # NoId ]_vars


\* C30: find_exact_duplicates, find_similar_duplicates and
\* generate_deduplication_report are read-only: the call leaves every
\* bookmark row (status and description included), every tag and every tag
\* association of the store as it was.
C30_FindersAreReadOnly ==
    [][ last'.op \in { "find_exact_duplicates", "find_similar_duplicates",
                       "generate_deduplication_report" }
        => /\ bookmarks' = bookmarks
           /\ tags' = tags
           /\ bookmark_tags' = bookmark_tags ]_vars

\* a report listed a group of two rows of a store that holds a tag
\* association, and both rows are active
C30_Witness ==
    /\ last.op = "generate_deduplication_report"
    /\ last.report.similar_duplicates = << <<1, 2>> >>
    /\ Active(bookmarks) = {1, 2}
    /\ bookmark_tags # {}


\* C25: after auto_deduplicate with the default threshold 0.95, not
\* interactive, without errors and with every group it found merged, no two
\* active rows of a domain (of at most 500 rows) have URLs with the same
\* normalized form, whatever their titles are.
C25_NoActiveRowsWithOneNormalizedUrl ==
    ( /\ last.op = "auto_deduplicate"
      /\ last.similarity_threshold = <<95, 100>>
      /\ ~last.interactive
      /\ last.errors = <<>>
      /\ last.bookmarks_merged
            = last.exact_duplicates_found + last.similar_duplicates_found )
    => \A i, j \in Active(bookmarks) :
          ( /\ i # j
            /\ bookmarks[i].domain = bookmarks[j].domain
            /\ DomainCount(bookmarks, bookmarks[i].domain) <= DomainLimit )
          => normalize_url(bookmarks[i].url) # normalize_url(bookmarks[j].url)

\* C27: after auto_deduplicate, every group that it merged still has a
\* member with status 'active', also when two groups of the pass share a row.
C27_MergedGroupKeepsAnActiveRow ==
    last.op = "auto_deduplicate" =>
        \A g \in 1..Len(last.merged) :
            \E i \in Range(last.merged[g]) : bookmarks[i].status = "active"


\* the stores that the calls x and then y leave when y begins after x has
\* returned, from the store <<B, BT>> on
C26_OneAfterTheOther(B, BT, x, y) ==
    UNION { { <<o2.bookmarks, o2.bookmark_tags>> :
                o2 \in merge_bookmarks(o1.bookmarks, tags, o1.bookmark_tags,
                                       y.ids, y.keep) } :
            o1 \in merge_bookmarks(B, tags, BT, x.ids, x.keep) }

\* C26: two merge_bookmarks calls whose id lists overlap leave, however
\* their steps interleave, a store that the two calls also leave when one
\* runs after the other, in one of the two orders.
C26_OverlappingMergesAreSerializable ==
    ( /\ Len(merging) = 2
      /\ merging[1].pc = "returned"
      /\ merging[2].pc = "returned"
      /\ merging[1].ids \cap merging[2].ids # {} )
    => <<bookmarks, bookmark_tags>>
          \in C26_OneAfterTheOther(merging[1].bookmarks, merging[1].bookmark_tags,
                                   merging[1], merging[2])
              \cup C26_OneAfterTheOther(merging[1].bookmarks,
                                        merging[1].bookmark_tags,
                                        merging[2], merging[1])

\* C28: after two successful merges of the same group, one after the other,
\* the survivor's description holds each distinct non-empty description of
\* the group's members exactly once.
C28_RemergeAddsNoDuplicateText ==
    ( /\ Len(merging) = 2
      /\ merging[1].pc = "returned" /\ merging[1].ret # NoId
      /\ merging[2].pc = "returned" /\ merging[2].ret # NoId
      /\ merging[2].returned_before = 1
      /\ merging[1].ids = merging[2].ids )
    => LET parts == Split(bookmarks[merging[2].ret].description, "|")
       IN  \A d \in descriptions(merging[1].bookmarks,
                                 Fetched(merging[1].bookmarks, merging[1].ids)) :
               Cardinality({ k \in 1..Len(parts) : Strip(parts[k]) = d }) = 1

====
